---------------------------- MODULE Spec2Model ----------------------------
(***************************************************************************)
(* A model of peter-mount/filecache: one CacheTable of one Cache, with its *)
(* in-memory item map, the persistence queue and worker, the memory- and   *)
(* disk-expiry engines and the sharded disk store.                         *)
(*                                                                         *)
(* Strings (keys, paths) are sequences of one-character strings, so that   *)
(* IsValid, getPath and walk's SplitN are computed on the characters as    *)
(* the code computes them.  The character NUL is written "NUL".            *)
(***************************************************************************)
EXTENDS Integers, Sequences, FiniteSets, TLC

(***************************************************************************)
(* Bounds of the model.                                                    *)
(***************************************************************************)
NumCallers == 2
MaxOps == 3
MaxTime == 1
MaxArgCalls == 2
NumWorkers == 2

Callers == {<<"caller", i>> : i \in 1..NumCallers}
Worker == <<"worker", 0>>
Workers == {<<"worker", i>> : i \in 0..(NumWorkers - 1)}
MemG == <<"memG", 0>>
DiskG == <<"diskG", 0>>
StartG == <<"startG", 0>>
Threads == Callers \cup Workers \cup {MemG, DiskG, StartG}

Nil == "nil"
NoThread == <<"free", 0>>

(***************************************************************************)
(* Strings.                                                                *)
(***************************************************************************)
PathSeparator == <<"/">>
Sep == "/"

RECURSIVE IndexFrom(_, _, _)
IndexFrom(s, c, i) ==
  IF i > Len(s) THEN 0
  ELSE IF s[i] = c THEN i ELSE IndexFrom(s, c, i + 1)

\* strings.SplitN(s, sep, n) for a one-character separator and n > 0
RECURSIVE SplitN(_, _, _)
SplitN(s, c, n) ==
  IF n = 1 THEN <<s>>
  ELSE LET i == IndexFrom(s, c, 1) IN
       IF i = 0 THEN <<s>>
       ELSE <<SubSeq(s, 1, i - 1)>> \o SplitN(SubSeq(s, i + 1, Len(s)), c, n - 1)

\* strings.ContainsAny(s, chars)
ContainsAny(s, chars) == \E i \in 1..Len(s) : s[i] \in chars

ForbiddenChars == {"/", "\\", "<", ">", ":", "\"", "|", "?", "*", "NUL"}

\* CacheItem.IsValid on the three fields it reads
IsValidFields(key, data, lifeSpan) ==
  /\ key # <<>>
  /\ key[1] # "."
  /\ ~ContainsAny(key, ForbiddenChars)
  /\ data # Nil
  /\ lifeSpan > 0

(***************************************************************************)
(* Codec: ToJsonBytes with TimeFromBytes.  Values "t1", "t2" are times,    *)
(* "str" is a string (it marshals, and does not unmarshal into a time),    *)
(* Nil marshals to JSON null, which unmarshals into the zero time "t0".    *)
(***************************************************************************)
ToJsonBytes(v) ==
  CASE v = "t0" -> "json_t0"
    [] v = "t1" -> "json_t1"
    [] v = "t2" -> "json_t2"
    [] v = "str" -> "json_str"
    [] v = Nil -> "json_null"
    [] OTHER -> Nil

TimeFromBytes(b) ==
  CASE b = "json_t0" -> "t0"
    [] b = "json_t1" -> "t1"
    [] b = "json_t2" -> "t2"
    [] b = "json_null" -> "t0"
    [] OTHER -> Nil

(***************************************************************************)
(* Disk store paths.  hex(md5(key))[0:3] is tabulated for the strings the  *)
(* model uses (the digests are those of md5).                              *)
(***************************************************************************)
Md5Hex3(key) ==
  CASE key = <<"a">> -> <<"0", "c", "c">>
    [] key = <<"b">> -> <<"9", "2", "e">>
    [] key = <<".", "a">> -> <<"5", "1", "b">>
    [] key = <<>> -> <<"d", "4", "1">>
    [] key = <<"a", "/", "b">> -> <<"a", "7", "e">>
    [] key = <<"a", "NUL">> -> <<"4", "1", "4">>
    [] key = <<"0", "/", "c", "c", "/", "a">> -> <<"c", "b", "5">>
    [] key = <<"9", "/", "2", "e", "/", "b">> -> <<"0", "0", "3">>
    [] key = <<"t", "/", "0", "/", "c", "c", "/", "a">> -> <<"1", "1", "1">>
    [] key = <<"t", "/", "9", "/", "2", "e", "/", "b">> -> <<"1", "c", "a">>
    [] OTHER -> <<"f", "f", "f">>

\* CacheTable.getPath: the directory and the file name of a key
getPathDir(base, key) ==
  LET b == Md5Hex3(key) IN
  base \o PathSeparator \o SubSeq(b, 1, 1) \o PathSeparator \o SubSeq(b, 2, 3)

getFilePath(base, key) == getPathDir(base, key) \o PathSeparator \o key

\* the key walk hands to its callback for a file path, <<>> wrapped in a
\* record when the split has fewer than three parts
WalkKey(path) ==
  LET key == SplitN(path, Sep, 3) IN
  IF Len(key) = 3 THEN [ok |-> TRUE, key |-> key[3]]
  ELSE [ok |-> FALSE, key |-> <<>>]


(***************************************************************************)
(* Configuration.                                                          *)
(***************************************************************************)
\* the zero value of CacheTableConfig.StartupOptions, which a config that
\* does not set the field holds
DefaultStartupOptions == 0

FlushCacheOnStart == 0
ExpireCacheOnStart == 1
LoadCacheOnStart == 2
LoadEntireCacheOnStart == 3

DefaultPersistQueueSize == 1
DefaultDiskExpiryTime == 24
DefaultDiskExpiryInterval == 1

TableName == <<"t">>

\* Cache.AddCache: the table built from a CacheTableConfig
AddCache(c) ==
  [ expiryTime         |-> IF c.ExpiryTime < 0 THEN 0 ELSE c.ExpiryTime,
    startupOptions     |-> c.StartupOptions,
    persistQueueSize   |-> IF c.PersistQueueSize <= 0 THEN DefaultPersistQueueSize
                           ELSE c.PersistQueueSize,
    diskExpiryTime     |-> IF c.DiskExpiryTime <= 0 THEN DefaultDiskExpiryTime
                           ELSE c.DiskExpiryTime,
    diskExpiryInterval |-> IF c.DiscExpiryInterval <= 0 THEN DefaultDiskExpiryInterval
                           ELSE c.DiscExpiryInterval,
    dataLoader         |-> c.DataLoader,
    addItem            |-> c.AddItem,
    deleteItem         |-> c.DeleteItem,
    cacheDir           |-> c.CacheDir ]

(***************************************************************************)
(* State.                                                                  *)
(***************************************************************************)
VARIABLES
  table,            \* the CacheTable's configuration fields, fixed by AddCache
  cacheStarted,     \* Cache.started
  started,          \* CacheTable.started
  basePath,         \* CacheTable.basePath, <<>> until start() sets it
  items,            \* CacheTable.items: key -> CacheItem
  cleanupInterval,  \* CacheTable.cleanupInterval
  cleanupTimer,     \* CacheTable.cleanupTimer: [armed, at]
  diskExpiryTimer,  \* CacheTable.diskExpiryTimer: [armed, at]
  persistQueue,     \* CacheTable.persistQueue: sequence of persistEntry
  dirs,             \* directories on disk
  files,            \* regular files on disk: path -> [val, modTime, key]; key
                    \* names the key the file was written for, for the
                    \* properties only
  now,              \* time.Now()
  mutex,            \* holder of CacheTable.mutex's write lock, or NoThread
  th,               \* each thread's position and locals
  calls,            \* calls made so far (bounded by MaxOps)
  hist,             \* history of each key, for the properties only
  ev                \* what the last step did (a return, an expiry decision),
                    \* for the properties only

fixed == <<table, cacheStarted, started, basePath>>
vars == <<table, cacheStarted, started, basePath, items, cleanupInterval,
          cleanupTimer, diskExpiryTimer, persistQueue, dirs, files, now, mutex,
          th, calls, hist, ev>>

NoItem ==
  [ id |-> 0, key |-> <<>>, lifeSpan |-> 0, createdOn |-> 0, accessedOn |-> 0,
    accessCount |-> 0, aboutToExpire |-> FALSE, data |-> Nil ]
NoTimer == [armed |-> FALSE, at |-> 0]

\* NewCacheItem / NewCreatedCacheItem
NewCreatedCacheItem(id, key, lifeSpan, data, created) ==
  [ id |-> id, key |-> key, lifeSpan |-> lifeSpan, createdOn |-> created,
    accessedOn |-> now, accessCount |-> 0, aboutToExpire |-> FALSE, data |-> data ]

NewCacheItem(id, key, lifeSpan, data) ==
  NewCreatedCacheItem(id, key, lifeSpan, data, now)

IsValid(item) ==
  /\ item # NoItem
  /\ IsValidFields(item.key, item.data, item.lifeSpan)

\* CacheItem.KeepAlive
KeepAlive(item) ==
  [item EXCEPT !.accessedOn = now, !.accessCount = @ + 1]

\* what a call has seen and done so far, for the properties only
NoObs ==
  [ memHit |-> FALSE, inMem |-> FALSE, onDisk |-> FALSE, disk |-> "none",
    diskVal |-> Nil, loader |-> "none", stored |-> FALSE, enq |-> FALSE,
    saw |-> Nil, removed |-> FALSE, cbLock |-> FALSE ]

Idle ==
  [ pc |-> "idle", op |-> "none", key |-> <<>>, data |-> Nil, ttl |-> 0,
    item |-> NoItem, expDur |-> 0, cont |-> "idle", todo |-> {}, snap |-> <<>>,
    now0 |-> 0, gone |-> {}, walk |-> {}, old |-> {}, cutoff |-> 0,
    andDisk |-> FALSE, expired |-> 0, dkey |-> <<>>, task |-> <<>>,
    found |-> NoItem, obs |-> NoObs ]

NoEv ==
  [ what |-> "none", t |-> NoThread, op |-> "none", key |-> <<>>, data |-> Nil,
    ttl |-> 0, ret |-> "none", item |-> NoItem, obs |-> NoObs, n |-> 0,
    count |-> 0, set |-> {}, snap |-> <<>>, removed |-> NoItem ]

\* the event of a call's return
Returned(t, rec, ret, item) ==
  [NoEv EXCEPT !.what = "return", !.t = t, !.op = rec.op, !.key = rec.key,
               !.data = rec.data, !.ttl = rec.ttl, !.ret = ret, !.item = item,
               !.obs = rec.obs]

NoAdd == [id |-> 0, val |-> Nil, done |-> FALSE]
NoHist == [lastAdd |-> NoAdd, pure |-> TRUE, nfaTrue |-> 0, nfaDone |-> 0,
           nfaVal |-> Nil, gone |-> FALSE, wiped |-> FALSE]

Put(f, k, v) == [x \in DOMAIN f \cup {k} |-> IF x = k THEN v ELSE f[x]]
Drop(f, k) == [x \in DOMAIN f \ {k} |-> f[x]]

\* the identity of a newly allocated CacheItem: the least one not in use
UsedIds ==
  {items[k].id : k \in DOMAIN items} \cup {th[t].item.id : t \in Threads}
    \cup {hist[k].lastAdd.id : k \in DOMAIN hist}
FreshId == CHOOSE i \in 1..(Cardinality(UsedIds) + 1) : i \notin UsedIds

(***************************************************************************)
(* The file system as the code uses it.                                    *)
(***************************************************************************)
\* ioutil.WriteFile(dir + "/" + key) after MkdirAll(dir): it fails when the
\* name is empty (the path is the directory), holds a separator (the parent
\* does not exist) or holds NUL
CanWrite(key) == key # <<>> /\ ~ContainsAny(key, {Sep, "NUL"})

\* os.Stat(getFilePath(key)): "ok", "notexist" or another error
Stat(key) ==
  LET dir == getPathDir(basePath, key) IN
  IF ContainsAny(key, {"NUL"}) THEN "error"
  ELSE IF key = <<>> THEN (IF dir \in dirs THEN "ok" ELSE "notexist")
  ELSE IF ContainsAny(key, {Sep})
       THEN (IF (dir \o PathSeparator \o SplitN(key, Sep, 2)[1]) \in DOMAIN files
             THEN "error" ELSE "notexist")
  ELSE IF getFilePath(basePath, key) \in DOMAIN files THEN "ok" ELSE "notexist"

\* CacheTable.diskLoader: the item read from the key's file, or NoItem
diskLoader(id, key) ==
  LET path == getFilePath(basePath, key) IN
  IF ~CanWrite(key) \/ path \notin DOMAIN files THEN NoItem
  ELSE LET val == TimeFromBytes(files[path].val) IN
       IF val # Nil
       THEN NewCreatedCacheItem(id, key, table.expiryTime, val, files[path].modTime)
       ELSE NoItem

\* the files walk visits: the regular files under basePath
WalkFiles == DOMAIN files

(***************************************************************************)
(* History, for the properties: the model writes it and never reads it.    *)
(***************************************************************************)
\* keys ks left memory or disk (delete, expiry or flush)
HistRemoved(h, ks) ==
  [k \in DOMAIN h |->
     IF k \in ks THEN [h[k] EXCEPT !.lastAdd = NoAdd, !.pure = FALSE,
                                   !.gone = TRUE]
     ELSE h[k]]

\* a DeleteFromMemoryAndDisk of key began: wiped holds until the next store
\* of the key
HistWiped(h, key, andDisk) ==
  IF andDisk /\ key \in DOMAIN h THEN [h EXCEPT ![key].wiped = TRUE] ELSE h

MarkRemoved(f, ks) ==
  [u \in Threads |->
     IF f[u].pc # "idle" /\ f[u].key \in ks
     THEN [f[u] EXCEPT !.obs.removed = TRUE] ELSE f[u]]

HistStored(h, k, op, item) ==
  IF k \notin DOMAIN h THEN h
  ELSE [h EXCEPT ![k] =
          IF op \in {"Add", "AddExpiry"}
          THEN [@ EXCEPT !.lastAdd = [id |-> item.id, val |-> item.data, done |-> FALSE],
                         !.pure = FALSE, !.wiped = FALSE]
          ELSE IF op \in {"NotFoundAdd", "NotFoundAddExpiry"}
          THEN [@ EXCEPT !.wiped = FALSE]
          ELSE [@ EXCEPT !.pure = FALSE, !.wiped = FALSE]]

HistReturned(h, k, op, item) ==
  IF k \notin DOMAIN h THEN h
  ELSE [h EXCEPT ![k] =
          IF op \in {"Add", "AddExpiry"} /\ @.lastAdd.id = item.id
          THEN [@ EXCEPT !.lastAdd.done = TRUE]
          ELSE IF op \in {"NotFoundAdd", "NotFoundAddExpiry"}
          THEN [@ EXCEPT !.nfaTrue = @ + 1, !.nfaDone = @ + 1, !.nfaVal = item.data]
          ELSE @]

HistNfaFalse(h, k) ==
  IF k \notin DOMAIN h THEN h ELSE [h EXCEPT ![k].nfaDone = @ + 1]

(***************************************************************************)
(* Time and the registry.                                                  *)
(***************************************************************************)
Tick ==
  /\ basePath # <<>>
  /\ now < MaxTime
  /\ now' = now + 1
  /\ ev' = NoEv
  /\ UNCHANGED <<fixed, items, cleanupInterval, cleanupTimer, diskExpiryTimer,
                 persistQueue, dirs, files, mutex, th, calls, hist>>

\* the goroutine CacheTable.start launches for its startup option
StartupPc(opt) ==
  CASE opt = FlushCacheOnStart -> "fd_stop"
    [] opt = ExpireCacheOnStart -> "ed_stop"
    [] opt = LoadCacheOnStart -> "lc_stop"
    [] opt = LoadEntireCacheOnStart -> "lc_stop"
    [] OTHER -> "idle"

\* the argument start passes to that goroutine's function
StartupArg(opt) ==
  CASE opt = ExpireCacheOnStart -> table.diskExpiryTime
    [] opt = LoadCacheOnStart -> table.expiryTime
    [] OTHER -> 0

\* startDiskExpiryTimer
StartDiskExpiryTimer == [armed |-> TRUE, at |-> now + table.diskExpiryInterval]

\* Cache.Start with CacheTable.start of the one registered table
FreeWorkers == {w \in Workers : th[w].pc = "idle"}

\* the goroutine the next start launches for the persist queue
NextWorker == CHOOSE w \in FreeWorkers : \A x \in FreeWorkers : w[2] <= x[2]

Start ==
  /\ ~cacheStarted
  /\ mutex = NoThread
  /\ FreeWorkers # {}
  /\ th[StartG].pc = "idle"
  /\ basePath' = table.cacheDir \o PathSeparator \o TableName
  /\ dirs' = dirs \cup {table.cacheDir, basePath'}
  /\ started' = TRUE
  /\ cacheStarted' = TRUE
  /\ th' = [th EXCEPT
              ![NextWorker] = [Idle EXCEPT !.pc = "w_recv"],
              ![StartG] = [Idle EXCEPT !.pc = StartupPc(table.startupOptions),
                                       !.op = "startup",
                                       !.ttl = StartupArg(table.startupOptions)]]
  /\ diskExpiryTimer' =
       IF StartupPc(table.startupOptions) = "idle"
       THEN StartDiskExpiryTimer ELSE diskExpiryTimer
  /\ ev' = [NoEv EXCEPT !.what = "start"]
  /\ UNCHANGED <<table, items, cleanupInterval, cleanupTimer, persistQueue,
                 files, now, mutex, calls, hist>>

(***************************************************************************)
(* Calls.  A caller makes a call when it is idle and the cache is started; *)
(* when the call returns the caller is idle again and ev holds the return. *)
(***************************************************************************)
\* Cache.Stop with CacheTable.stop of the table
Stop ==
  /\ cacheStarted
  /\ mutex = NoThread
  /\ diskExpiryTimer' = IF started THEN [diskExpiryTimer EXCEPT !.armed = FALSE]
                        ELSE diskExpiryTimer
  /\ started' = FALSE
  /\ cacheStarted' = FALSE
  /\ ev' = [NoEv EXCEPT !.what = "stop"]
  /\ UNCHANGED <<table, basePath, items, cleanupInterval, cleanupTimer,
                 persistQueue, dirs, files, now, mutex, th, calls, hist>>

\* a caller holds the table from GetCache; its methods work once start has
\* set basePath, whether or not the cache was stopped since
CanCall(t) ==
  /\ t \in Callers
  /\ basePath # <<>>
  /\ th[t].pc = "idle"
  /\ calls < MaxOps

Call(op, key, ttl, data) ==
  [Idle EXCEPT !.op = op, !.key = key, !.ttl = ttl, !.data = data]

\* what add does after it released the lock and ran the addItem callback:
\* expireMemory when the item is more imminent than
\* the armed check, then the send to the persist queue
AfterStore(rec, item, expDur) ==
  IF item.lifeSpan > 0 /\ (expDur = 0 \/ item.lifeSpan < expDur)
  THEN [rec EXCEPT !.pc = "em_begin", !.cont = "add_send", !.expDur = 0]
  ELSE [rec EXCEPT !.pc = "add_send", !.expDur = 0]

\* CacheTable.add up to mutex.Unlock, entered with the lock held by t
AddStore(t, rec, item) ==
  /\ items' = Put(items, item.key, item)
  /\ th' = [th EXCEPT ![t] =
              IF table.addItem
              THEN [rec EXCEPT !.pc = "add_cb", !.item = item,
                               !.expDur = cleanupInterval, !.obs.stored = TRUE]
              ELSE AfterStore([rec EXCEPT !.item = item, !.obs.stored = TRUE],
                              item, cleanupInterval)]
  /\ hist' = HistStored(hist, item.key, rec.op, item)
  /\ mutex' = NoThread

\* add's call of the addItem callback, after Unlock
AddCallback(t) ==
  /\ th[t].pc = "add_cb"
  /\ th' = [th EXCEPT ![t] = AfterStore(th[t], th[t].item, th[t].expDur)]
  /\ ev' = [NoEv EXCEPT !.what = "callback", !.t = t, !.op = "addItem",
                        !.key = th[t].item.key]
  /\ UNCHANGED <<fixed, items, cleanupInterval, cleanupTimer, diskExpiryTimer,
                 persistQueue, dirs, files, now, mutex, calls, hist>>

\* CacheTable.AddExpiry, called as op (Add passes table.expiryTime)
AddExpiryCall(t, op, key, lifeSpan, data) ==
  LET item == NewCacheItem(FreshId, key, lifeSpan, data)
      rec == Call(op, key, lifeSpan, data) IN
  /\ CanCall(t)
  /\ calls' = calls + 1
  /\ IF ~IsValid(item)
     THEN /\ ev' = Returned(t, rec, "nil", NoItem)
          /\ UNCHANGED <<items, th, hist, mutex>>
     ELSE /\ mutex = NoThread
          /\ AddStore(t, rec, item)
          /\ ev' = NoEv
  /\ UNCHANGED <<fixed, cleanupInterval, cleanupTimer, diskExpiryTimer,
                 persistQueue, dirs, files, now>>

Add(t, key, data) == AddExpiryCall(t, "Add", key, table.expiryTime, data)

AddExpiry(t, key, lifeSpan, data) ==
  AddExpiryCall(t, "AddExpiry", key, lifeSpan, data)

\* NotFoundAddExpiry's test with only the memory looked at
KeyExistsInMemory(key) == key \in DOMAIN items

\* NotFoundAddExpiry's test with only the disk looked at
KeyExistsOnDisk(key) == Stat(key) # "notexist"

\* NotFoundAddExpiry's test under the lock: ok of the map lookup, else
\* !os.IsNotExist of os.Stat's error
KeyExists(key) == key \in DOMAIN items \/ Stat(key) # "notexist"

\* CacheTable.NotFoundAddExpiry, called as op
NotFoundAddExpiryCall(t, op, key, lifeSpan, data) ==
  LET ok == KeyExists(key)
      rec == [Call(op, key, lifeSpan, data) EXCEPT
                !.obs.inMem = key \in DOMAIN items,
                !.obs.onDisk = \E p \in DOMAIN files : files[p].key = key] IN
  /\ CanCall(t)
  /\ mutex = NoThread
  /\ calls' = calls + 1
  /\ IF ok
     THEN /\ ev' = Returned(t, rec, "false", NoItem)
          /\ hist' = HistNfaFalse(hist, key)
          /\ UNCHANGED <<items, th, mutex>>
     ELSE /\ AddStore(t, rec, NewCacheItem(FreshId, key, lifeSpan, data))
          /\ ev' = NoEv
  /\ UNCHANGED <<fixed, cleanupInterval, cleanupTimer, diskExpiryTimer,
                 persistQueue, dirs, files, now>>

NotFoundAdd(t, key, data) ==
  NotFoundAddExpiryCall(t, "NotFoundAdd", key, table.expiryTime, data)

NotFoundAddExpiry(t, key, lifeSpan, data) ==
  NotFoundAddExpiryCall(t, "NotFoundAddExpiry", key, lifeSpan, data)

\* what add, and through it the public call, returns
InsertRet(op) ==
  CASE op \in {"NotFoundAdd", "NotFoundAddExpiry"} -> "true"
    [] op = "Get" -> "ok"
    [] OTHER -> "item"

\* the end of CacheTable.add: toBytes, the send to persistQueue (which
\* blocks while the queue is full) and the return
AddSend(t) ==
  LET rec == th[t]
      b == ToJsonBytes(rec.item.data)
      rec2 == [rec EXCEPT !.obs.enq = (b # Nil)] IN
  /\ rec.pc = "add_send"
  /\ IF b # Nil
     THEN /\ Len(persistQueue) < table.persistQueueSize
          /\ persistQueue' = Append(persistQueue, [key |-> rec.item.key, val |-> b])
     ELSE UNCHANGED persistQueue
  /\ th' = [th EXCEPT ![t] = Idle]
  /\ hist' = HistReturned(hist, rec.item.key, rec.op, rec.item)
  /\ ev' = Returned(t, rec2, InsertRet(rec.op), rec.item)
  /\ UNCHANGED <<fixed, items, cleanupInterval, cleanupTimer, diskExpiryTimer,
                 dirs, files, now, mutex, calls>>

(***************************************************************************)
(* Delete.                                                                 *)
(***************************************************************************)
\* delete's test on the item r it found, negated:
\* table.deleteItem != nil || r.aboutToExpire != nil
NeedsCallbacks(r) == table.deleteItem \/ r.aboutToExpire

\* the lock with the callbacks run without delete's Unlock
KeepLockForCallbacks(t) == t

\* the holder of the lock while delete runs the callbacks: delete's Unlock
\* freed it
UnlockForCallbacks(t) == NoThread

\* os.Remove(getFilePath(key)) on the files
RemoveFile(f, key) ==
  LET path == getFilePath(basePath, key) IN
  IF path \in DOMAIN f THEN Drop(f, path) ELSE f

\* DeleteFromMemory / DeleteFromMemoryAndDisk, called by a caller
DeleteCall(t, op, key, andDisk) ==
  LET rec == [Call(op, key, 0, Nil) EXCEPT !.andDisk = andDisk, !.dkey = key,
                                            !.cont = "ret"] IN
  /\ CanCall(t)
  /\ mutex = NoThread
  /\ calls' = calls + 1
  /\ IF key \in DOMAIN items /\ NeedsCallbacks(items[key])
     THEN /\ th' = [th EXCEPT ![t] = [rec EXCEPT !.pc = "del_cb", !.item = items[key],
                                                 !.found = items[key]]]
          /\ mutex' = UnlockForCallbacks(t)
          /\ ev' = NoEv
          /\ hist' = HistWiped(hist, key, andDisk)
          /\ UNCHANGED <<items, files>>
     ELSE /\ items' = IF key \in DOMAIN items THEN Drop(items, key) ELSE items
          /\ files' = IF andDisk THEN RemoveFile(files, key) ELSE files
          /\ hist' = HistWiped(HistRemoved(hist, {key}), key, andDisk)
          /\ th' = MarkRemoved(th, {key})
          /\ ev' = Returned(t, rec, "void", NoItem)
          /\ UNCHANGED mutex
  /\ UNCHANGED <<fixed, cleanupInterval, cleanupTimer, diskExpiryTimer,
                 persistQueue, dirs, now>>

DeleteFromMemory(t, key) == DeleteCall(t, "DeleteFromMemory", key, FALSE)

DeleteFromMemoryAndDisk(t, key) ==
  DeleteCall(t, "DeleteFromMemoryAndDisk", key, TRUE)

\* what delete(table.items, key) removes: the item the key holds now
Deleted(key) == IF key \in DOMAIN items THEN items[key] ELSE NoItem

\* the deferred function of CacheTable.delete after the callbacks ran with
\* the lock released: lock again and delete whatever the key holds now; then
\* the caller's os.Remove and Unlock
DeleteRelock(t) ==
  LET rec == th[t] IN
  /\ rec.pc = "del_cb"
  /\ mutex = NoThread
  /\ items' = IF rec.dkey \in DOMAIN items THEN Drop(items, rec.dkey) ELSE items
  /\ files' = IF rec.andDisk THEN RemoveFile(files, rec.dkey) ELSE files
  /\ hist' = HistRemoved(hist, {rec.dkey})
  /\ IF rec.cont = "ret"
     THEN /\ th' = [MarkRemoved(th, {rec.dkey}) EXCEPT ![t] = Idle]
          /\ ev' = [Returned(t, rec, "void", rec.item) EXCEPT
                      !.removed = Deleted(rec.dkey)]
     ELSE /\ th' = [MarkRemoved(th, {rec.dkey}) EXCEPT
                      ![t] = [rec EXCEPT !.pc = rec.cont, !.item = NoItem,
                                         !.found = NoItem]]
          /\ ev' = [NoEv EXCEPT !.what = "deleted", !.t = t, !.key = rec.dkey,
                                !.item = rec.found, !.removed = Deleted(rec.dkey)]
  /\ UNCHANGED <<fixed, cleanupInterval, cleanupTimer, diskExpiryTimer,
                 persistQueue, dirs, now, mutex, calls>>

\* CacheItem.SetAboutToExpireCallback on the item resident under key, whose
\* pointer an earlier Add or Get returned
SetAboutToExpireCallback(t, key) ==
  /\ CanCall(t)
  /\ key \in DOMAIN items
  /\ ~items[key].aboutToExpire
  /\ calls' = calls + 1
  /\ items' = [items EXCEPT ![key].aboutToExpire = TRUE]
  /\ ev' = Returned(t, Call("SetAboutToExpireCallback", key, 0, Nil), "void",
                    items'[key])
  /\ UNCHANGED <<fixed, cleanupInterval, cleanupTimer, diskExpiryTimer,
                 persistQueue, dirs, files, now, mutex, th, hist>>

(***************************************************************************)
(* Memory expiry.                                                          *)
(***************************************************************************)
\* the loop's test on one item: "skip", "delete" or "keep"
ExpiryVerdict(item, now0) ==
  IF item.lifeSpan = 0 THEN "skip"
  ELSE IF now0 - item.accessedOn >= item.lifeSpan THEN "delete"
  ELSE "keep"

\* smallestDuration after the loop visited the items of keys ks
RECURSIVE SmallestDuration(_, _, _)
SmallestDuration(ks, now0, smallest) ==
  IF ks = {} THEN smallest
  ELSE LET k == CHOOSE x \in ks : TRUE
           left == items[k].lifeSpan - (now0 - items[k].accessedOn)
           s == IF ExpiryVerdict(items[k], now0) = "keep"
                     /\ (smallest = 0 \/ left < smallest)
                THEN left ELSE smallest
       IN SmallestDuration(ks \ {k}, now0, s)

\* expireMemory: Lock, stopMemoryExpiryTimer, now := time.Now()
ExpireMemoryBegin(t) ==
  /\ th[t].pc = "em_begin"
  /\ mutex = NoThread
  /\ mutex' = t
  /\ cleanupTimer' = [cleanupTimer EXCEPT !.armed = FALSE]
  /\ th' = [th EXCEPT ![t] = [@ EXCEPT !.pc = "em_loop", !.now0 = now,
                                       !.todo = DOMAIN items, !.snap = items,
                                       !.gone = {}]]
  /\ ev' = NoEv
  /\ UNCHANGED <<fixed, items, cleanupInterval, diskExpiryTimer, persistQueue,
                 dirs, files, now, calls, hist>>

\* the loop reaches an expired item whose delete runs callbacks: delete
\* unlocks for them
ExpireMemoryItem(t, key) ==
  LET rec == th[t] IN
  /\ rec.pc = "em_loop"
  /\ key \in rec.todo \cap DOMAIN items
  /\ NeedsCallbacks(items[key])
  /\ ExpiryVerdict(items[key], rec.now0) = "delete"
  /\ mutex' = UnlockForCallbacks(t)
  /\ th' = [th EXCEPT ![t] = [rec EXCEPT !.pc = "em_cb", !.dkey = key,
                                         !.found = items[key],
                                         !.todo = @ \ {key}]]
  /\ ev' = NoEv
  /\ UNCHANGED <<fixed, items, cleanupInterval, cleanupTimer, diskExpiryTimer,
                 persistQueue, dirs, files, now, calls, hist>>

\* delete's deferred function inside the loop: lock again, delete the key.
\* The range over the map goes on: it no longer produces entries deleted
\* meanwhile and may or may not produce those created meanwhile (more).
ExpireMemoryRelock(t, more) ==
  LET rec == th[t] IN
  /\ rec.pc = "em_cb"
  /\ mutex = NoThread
  /\ more \subseteq (DOMAIN items \ (DOMAIN rec.snap \cup {rec.dkey}))
  /\ mutex' = t
  /\ items' = IF rec.dkey \in DOMAIN items THEN Drop(items, rec.dkey) ELSE items
  /\ hist' = HistRemoved(hist, {rec.dkey})
  /\ th' = [MarkRemoved(th, {rec.dkey}) EXCEPT
              ![t] = [rec EXCEPT !.pc = "em_loop", !.gone = @ \cup {rec.dkey},
                                 !.todo = (@ \cap DOMAIN items) \cup more,
                                 !.found = NoItem,
                                 !.obs.removed = @ \/ rec.key = rec.dkey]]
  /\ ev' = [NoEv EXCEPT !.what = "deleted", !.t = t, !.key = rec.dkey,
                        !.item = rec.found, !.removed = Deleted(rec.dkey)]
  /\ UNCHANGED <<fixed, cleanupInterval, cleanupTimer, diskExpiryTimer,
                 persistQueue, dirs, files, now, calls>>

\* the rest of the loop (items deleted without callbacks, items kept), the
\* new cleanupInterval and timer, Unlock
ExpireMemoryEnd(t) ==
  LET rec == th[t]
      todo == rec.todo \cap DOMAIN items
      dead == {k \in todo : ExpiryVerdict(items[k], rec.now0) = "delete"}
      smallest == SmallestDuration(todo, rec.now0, 0)
      gone == rec.gone \cup dead
      e == [NoEv EXCEPT !.what = "expireMemory", !.t = t, !.n = rec.now0,
                        !.set = gone, !.snap = rec.snap]
      back == IF rec.cont = "add_send"
              THEN [rec EXCEPT !.pc = "add_send", !.todo = {}, !.snap = <<>>,
                               !.gone = {}, !.now0 = 0, !.dkey = <<>>,
                               !.cont = "idle",
                               !.obs.removed = @ \/ rec.key \in dead]
              ELSE Idle IN
  /\ rec.pc = "em_loop"
  /\ \A k \in dead : ~NeedsCallbacks(items[k])
  /\ items' = [k \in DOMAIN items \ dead |-> items[k]]
  /\ cleanupInterval' = smallest
  /\ cleanupTimer' = IF smallest > 0 THEN [armed |-> TRUE, at |-> now + smallest]
                     ELSE cleanupTimer
  /\ mutex' = NoThread
  /\ hist' = HistRemoved(hist, dead)
  /\ th' = [MarkRemoved(th, dead) EXCEPT ![t] = back]
  /\ ev' = e
  /\ UNCHANGED <<fixed, diskExpiryTimer, persistQueue, dirs, files, now, calls>>

\* the cleanupTimer fires: go table.expireMemory()
MemoryTimerFire ==
  /\ cleanupTimer.armed
  /\ now >= cleanupTimer.at
  /\ th[MemG].pc = "idle"
  /\ cleanupTimer' = [cleanupTimer EXCEPT !.armed = FALSE]
  /\ th' = [th EXCEPT ![MemG] = [Idle EXCEPT !.pc = "em_begin", !.op = "expireMemory"]]
  /\ ev' = NoEv
  /\ UNCHANGED <<fixed, items, cleanupInterval, diskExpiryTimer, persistQueue,
                 dirs, files, now, mutex, calls, hist>>

(***************************************************************************)
(* Get.                                                                    *)
(***************************************************************************)
\* what the table's dataLoader may return: nil, a valid item or an item
\* that IsValid rejects
LoaderResults == {"nil", "item", "invalid"}

LoaderItem(kind, id, key) ==
  CASE kind = "item" -> NewCacheItem(id, key, 1, "t2")
    [] kind = "invalid" -> NewCacheItem(id, key, 0, "t2")
    [] OTHER -> NoItem

\* the value a successfully returned Add of the key left in memory, if no
\* delete, flush or expiry of the key followed it (for the properties only)
LastAdded(key) ==
  IF key \in DOMAIN hist /\ hist[key].lastAdd.done THEN hist[key].lastAdd.val
  ELSE Nil

\* CacheTable.Get up to the memory lookup; on a hit KeepAlive and return
Get(t, key) ==
  LET rec == [Call("Get", key, 0, Nil) EXCEPT !.obs.saw = LastAdded(key),
                                              !.obs.inMem = key \in DOMAIN items] IN
  /\ CanCall(t)
  /\ mutex = NoThread
  /\ calls' = calls + 1
  /\ IF key \in DOMAIN items
     THEN /\ items' = [items EXCEPT ![key] = KeepAlive(@)]
          /\ ev' = Returned(t, [rec EXCEPT !.obs.memHit = TRUE], "ok", items'[key])
          /\ UNCHANGED th
     ELSE /\ th' = [th EXCEPT ![t] = [rec EXCEPT !.pc = "get_disk"]]
          /\ ev' = NoEv
          /\ UNCHANGED items
  /\ UNCHANGED <<fixed, cleanupInterval, cleanupTimer, diskExpiryTimer,
                 persistQueue, dirs, files, now, mutex, hist>>

\* Get's test with the dataLoader called whatever the disk gave
UseLoaderAlways(fromDisk) == table.dataLoader

\* Get's test before it calls the dataLoader: item == nil && dataLoader != nil
UseLoader(fromDisk) == fromDisk = NoItem /\ table.dataLoader

\* Get after a memory miss: diskLoader, then the dataLoader if the disk gave
\* nothing, then the IsValid test
GetDisk(t, kind) ==
  LET rec == th[t]
      fromDisk == diskLoader(FreshId, rec.key)
      useLoader == UseLoader(fromDisk)
      item == IF useLoader THEN LoaderItem(kind, FreshId, rec.key) ELSE fromDisk
      onDisk == {p \in DOMAIN files : files[p].key = rec.key}
      rec2 == [rec EXCEPT
                 !.obs.disk = IF fromDisk = NoItem THEN "miss" ELSE "hit",
                 !.obs.onDisk = onDisk # {},
                 !.obs.diskVal = IF onDisk = {} THEN Nil
                                 ELSE TimeFromBytes(files[CHOOSE p \in onDisk : TRUE].val),
                 !.obs.loader = IF useLoader THEN kind ELSE "none",
                 !.obs.cbLock = useLoader /\ mutex = t] IN
  /\ rec.pc = "get_disk"
  /\ useLoader \/ kind = "nil"
  /\ IF item # NoItem /\ IsValid(item)
     THEN /\ th' = [th EXCEPT ![t] = [rec2 EXCEPT !.pc = "get_lock", !.item = item]]
          /\ ev' = NoEv
     ELSE /\ th' = [th EXCEPT ![t] = Idle]
          /\ ev' = Returned(t, rec2, "notfound", NoItem)
  /\ UNCHANGED <<fixed, items, cleanupInterval, cleanupTimer, diskExpiryTimer,
                 persistQueue, dirs, files, now, mutex, calls, hist>>

\* Get with a valid loaded item: Lock and add
GetStore(t) ==
  /\ th[t].pc = "get_lock"
  /\ mutex = NoThread
  /\ AddStore(t, th[t], th[t].item)
  /\ ev' = NoEv
  /\ UNCHANGED <<fixed, cleanupInterval, cleanupTimer, diskExpiryTimer,
                 persistQueue, dirs, files, now, calls>>

(***************************************************************************)
(* The persistence worker.                                                 *)
(***************************************************************************)
\* e := <-table.persistQueue
WorkerReceive(w) ==
  /\ th[w].pc = "w_recv"
  /\ persistQueue # <<>>
  /\ th' = [th EXCEPT ![w] = [@ EXCEPT !.pc = "w_persist",
                                            !.task = <<Head(persistQueue)>>]]
  /\ persistQueue' = Tail(persistQueue)
  /\ ev' = NoEv
  /\ UNCHANGED <<fixed, items, cleanupInterval, cleanupTimer, diskExpiryTimer,
                 dirs, files, now, mutex, calls, hist>>

\* CacheTable.persist on the files: WriteFile's error is dropped
persist(f, e) ==
  IF CanWrite(e.key)
  THEN Put(f, getFilePath(basePath, e.key),
           [val |-> e.val, modTime |-> now, key |-> e.key])
  ELSE f

\* table.persist(e), and the test at the head of the worker's loop: the
\* goroutine waits for the next task, or ends when it reads started as
\* false.  The read is not synchronised with stop's write: after a stop the
\* goroutine may still read true.
WorkerPersist(w) ==
  LET e == th[w].task[1] IN
  /\ th[w].pc = "w_persist"
  /\ files' = persist(files, e)
  /\ dirs' = dirs \cup {getPathDir(basePath, e.key)}
  /\ \E pc \in (IF started THEN {"w_recv"} ELSE {"w_recv", "idle"}) :
       th' = [th EXCEPT ![w] = [Idle EXCEPT !.pc = pc]]
  /\ ev' = [NoEv EXCEPT !.what = "persist", !.t = w, !.key = e.key,
                        !.data = e.val]
  /\ UNCHANGED <<fixed, items, cleanupInterval, cleanupTimer, diskExpiryTimer,
                 persistQueue, now, mutex, calls, hist>>

(***************************************************************************)
(* Disk expiry, flush and load.                                            *)
(***************************************************************************)
\* ExpireDiskMaxAge up to the walk: stopDiskExpiryTimer, expireTime, and
\* the files filepath.Walk is going to visit
ExpireDiskBegin(t, rec, maxAge) ==
  LET cutoff == now + (IF maxAge > 0 THEN -maxAge ELSE maxAge) IN
  /\ mutex = NoThread
  /\ diskExpiryTimer' = [diskExpiryTimer EXCEPT !.armed = FALSE]
  /\ th' = [th EXCEPT ![t] = [rec EXCEPT !.pc = "ed_loop", !.cutoff = cutoff,
                                         !.walk = WalkFiles, !.expired = 0,
                                         !.old = {p \in WalkFiles :
                                                    files[p].modTime < cutoff}]]
  /\ ev' = NoEv
  /\ UNCHANGED <<fixed, items, cleanupInterval, cleanupTimer, persistQueue,
                 dirs, files, now, mutex, hist>>

\* ExpireDiskMaxAge called by a caller
ExpireDiskMaxAge(t, maxAge) ==
  /\ CanCall(t)
  /\ calls' = calls + 1
  /\ ExpireDiskBegin(t, Call("ExpireDiskMaxAge", <<>>, maxAge, Nil), maxAge)

\* ExpireDisk run by a goroutine (the disk-expiry timer's, or start's)
ExpireDisk(t) ==
  /\ th[t].pc = "ed_stop"
  /\ ExpireDiskBegin(t, th[t], table.diskExpiryTime)
  /\ UNCHANGED calls

\* the walk reaches a file older than expireTime: DeleteFromMemoryAndDisk of
\* the key walk made of its path, expired++
ExpireDiskFile(t, path) ==
  LET rec == th[t]
      k == WalkKey(path) IN
  /\ rec.pc = "ed_loop"
  /\ path \in rec.walk \cap DOMAIN files
  /\ files[path].modTime < rec.cutoff
  /\ k.ok
  /\ mutex = NoThread
  /\ IF k.key \in DOMAIN items /\ NeedsCallbacks(items[k.key])
     THEN /\ th' = [th EXCEPT ![t] = [rec EXCEPT !.pc = "del_cb", !.cont = "ed_loop",
                                                 !.dkey = k.key, !.andDisk = TRUE,
                                                 !.found = items[k.key],
                                                 !.walk = @ \ {path},
                                                 !.expired = @ + 1]]
          /\ mutex' = UnlockForCallbacks(t)
          /\ UNCHANGED <<items, files, hist>>
     ELSE /\ items' = IF k.key \in DOMAIN items THEN Drop(items, k.key) ELSE items
          /\ files' = RemoveFile(files, k.key)
          /\ hist' = HistRemoved(hist, {k.key})
          /\ th' = [MarkRemoved(th, {k.key}) EXCEPT
                      ![t] = [rec EXCEPT !.walk = @ \ {path}, !.expired = @ + 1]]
          /\ UNCHANGED mutex
  /\ ev' = NoEv
  /\ UNCHANGED <<fixed, cleanupInterval, cleanupTimer, diskExpiryTimer,
                 persistQueue, dirs, now, calls>>

\* the walk is over (the files left are not older than expireTime, or are
\* gone): the deferred startDiskExpiryTimer, and the return of the count
ExpireDiskEnd(t) ==
  LET rec == th[t] IN
  /\ rec.pc = "ed_loop"
  /\ \A p \in rec.walk \cap DOMAIN files :
        ~(files[p].modTime < rec.cutoff /\ WalkKey(p).ok)
  /\ mutex = NoThread
  /\ diskExpiryTimer' = StartDiskExpiryTimer
  /\ th' = [th EXCEPT ![t] = Idle]
  /\ ev' = [NoEv EXCEPT !.what = "expireDisk", !.t = t, !.op = rec.op,
                        !.n = rec.cutoff, !.count = rec.expired, !.set = rec.old]
  /\ UNCHANGED <<fixed, items, cleanupInterval, cleanupTimer, persistQueue,
                 dirs, files, now, mutex, calls, hist>>

\* the diskExpiryTimer fires: go table.ExpireDisk()
DiskTimerFire ==
  /\ diskExpiryTimer.armed
  /\ now >= diskExpiryTimer.at
  /\ th[DiskG].pc = "idle"
  /\ diskExpiryTimer' = [diskExpiryTimer EXCEPT !.armed = FALSE]
  /\ th' = [th EXCEPT ![DiskG] = [Idle EXCEPT !.pc = "ed_stop", !.op = "ExpireDisk"]]
  /\ ev' = NoEv
  /\ UNCHANGED <<fixed, items, cleanupInterval, cleanupTimer, persistQueue,
                 dirs, files, now, mutex, calls, hist>>

\* stopDiskExpiryTimer at the head of FlushDisk and of loadCache
StopDiskExpiryTimer(t, from, to) ==
  /\ th[t].pc = from
  /\ mutex = NoThread
  /\ diskExpiryTimer' = [diskExpiryTimer EXCEPT !.armed = FALSE]
  /\ th' = [th EXCEPT ![t] = [@ EXCEPT !.pc = to]]
  /\ ev' = NoEv
  /\ UNCHANGED <<fixed, items, cleanupInterval, cleanupTimer, persistQueue,
                 dirs, files, now, mutex, calls, hist>>

FlushDiskStop(t) == StopDiskExpiryTimer(t, "fd_stop", "fd_flush")

\* flushDisk under the lock: os.Remove of every path walk hands over
FlushDisk(t) ==
  LET gone == {p \in WalkFiles : WalkKey(p).ok} IN
  /\ th[t].pc = "fd_flush"
  /\ mutex = NoThread
  /\ files' = [p \in DOMAIN files \ gone |-> files[p]]
  /\ th' = [th EXCEPT ![t] = [@ EXCEPT !.pc = "fd_start"]]
  /\ ev' = [NoEv EXCEPT !.what = "flushDisk", !.t = t, !.op = th[t].op,
                        !.set = gone, !.snap = [p \in gone |-> files[p]]]
  /\ UNCHANGED <<fixed, items, cleanupInterval, cleanupTimer, diskExpiryTimer,
                 persistQueue, dirs, now, mutex, calls, hist>>

\* the deferred startDiskExpiryTimer of FlushDisk
FlushDiskStart(t) ==
  /\ th[t].pc = "fd_start"
  /\ mutex = NoThread
  /\ diskExpiryTimer' = StartDiskExpiryTimer
  /\ th' = [th EXCEPT ![t] = Idle]
  /\ ev' = NoEv
  /\ UNCHANGED <<fixed, items, cleanupInterval, cleanupTimer, persistQueue,
                 dirs, files, now, mutex, calls, hist>>

\* CacheTable.ForeachDisk, called with a walker that records the key it is
\* given for each path
ForeachDisk(t) ==
  /\ CanCall(t)
  /\ mutex = NoThread
  /\ calls' = calls + 1
  /\ ev' = [NoEv EXCEPT !.what = "foreachDisk", !.t = t, !.op = "ForeachDisk",
                        !.set = {<<p, WalkKey(p).key>> :
                                   p \in {q \in WalkFiles : WalkKey(q).ok}}]
  /\ UNCHANGED <<fixed, items, cleanupInterval, cleanupTimer, diskExpiryTimer,
                 persistQueue, dirs, files, now, mutex, th, hist>>

LoadCacheStop(t) == StopDiskExpiryTimer(t, "lc_stop", "lc_load")

\* the items loadCache's walk stores for the paths ps, over the map m
RECURSIVE LoadItems(_, _, _, _)
LoadItems(ps, m, maxAge, loadTime) ==
  IF ps = {} THEN m
  ELSE LET p == CHOOSE x \in ps : TRUE
           k == WalkKey(p)
           id == CHOOSE i \in 1..(Cardinality(UsedIds) + Cardinality(DOMAIN m) + 1) :
                   i \notin UsedIds \cup {m[x].id : x \in DOMAIN m}
           item == diskLoader(id, k.key)
           m2 == IF k.ok /\ (maxAge = 0 \/ files[p].modTime > loadTime)
                    /\ item # NoItem
                 THEN Put(m, k.key, item) ELSE m
       IN LoadItems(ps \ {p}, m2, maxAge, loadTime)

\* loadCache under the lock: the walk that loads the files newer than
\* loadTime (all of them when maxAge is 0)
LoadCache(t) ==
  LET maxAge == IF th[t].ttl > 0 THEN -th[t].ttl ELSE th[t].ttl
      loaded == LoadItems(WalkFiles, items, maxAge, now + maxAge) IN
  /\ th[t].pc = "lc_load"
  /\ mutex = NoThread
  /\ items' = loaded
  /\ th' = [th EXCEPT ![t] = [@ EXCEPT !.pc = "lc_start"]]
  /\ ev' = [NoEv EXCEPT !.what = "loadCache", !.t = t,
                        !.set = {k \in DOMAIN loaded :
                                   k \notin DOMAIN items \/ loaded[k] # items[k]}]
  /\ UNCHANGED <<fixed, cleanupInterval, cleanupTimer, diskExpiryTimer,
                 persistQueue, dirs, files, now, mutex, calls, hist>>

\* the deferred function of loadCache after Unlock: startDiskExpiryTimer,
\* then expireMemory
LoadCacheStart(t) ==
  /\ th[t].pc = "lc_start"
  /\ mutex = NoThread
  /\ diskExpiryTimer' = StartDiskExpiryTimer
  /\ th' = [th EXCEPT ![t] = [@ EXCEPT !.pc = "em_begin", !.cont = "idle"]]
  /\ ev' = NoEv
  /\ UNCHANGED <<fixed, items, cleanupInterval, cleanupTimer, persistQueue,
                 dirs, files, now, mutex, calls, hist>>

(***************************************************************************)
(* Inputs and the specification of the API under concurrency.              *)
(***************************************************************************)
KeyA == <<"a">>
KeyB == <<"b">>
ValidKeys == {KeyA, KeyB}
InvalidKeys == {<<>>, <<".", "a">>, <<"a", "/", "b">>, <<"a", "NUL">>}

Arg(key, ttl, data) == [key |-> key, ttl |-> ttl, data |-> data]

\* one argument list for each way IsValid rejects
InvalidArgs ==
  {Arg(k, 1, "t1") : k \in InvalidKeys}
    \cup {Arg(KeyA, 1, Nil), Arg(KeyA, 0, "t1"), Arg(KeyA, -1, "t1")}

Config(expiry, opt, loader, delCb, dir) ==
  [ ExpiryTime |-> expiry, StartupOptions |-> opt, PersistQueueSize |-> 0,
    DiskExpiryTime |-> 1, DiscExpiryInterval |-> 0, DataLoader |-> loader,
    AddItem |-> FALSE, DeleteItem |-> delCb, CacheDir |-> dir ]

\* the same with an addItem callback
ConfigAddItem(expiry, opt, loader, delCb, dir) ==
  [Config(expiry, opt, loader, delCb, dir) EXCEPT !.AddItem = TRUE]

\* the state after NewCache and AddCache(c), before Start; stored are the
\* keys with a file left by an earlier run, written before time 0
InitWith(c, stored) ==
  /\ table = AddCache(c)
  /\ cacheStarted = FALSE
  /\ started = FALSE
  /\ basePath = <<>>
  /\ items = [k \in {} |-> NoItem]
  /\ cleanupInterval = 0
  /\ cleanupTimer = NoTimer
  /\ diskExpiryTimer = NoTimer
  /\ persistQueue = <<>>
  /\ dirs = IF stored = {} THEN {}
            ELSE {c.CacheDir, c.CacheDir \o PathSeparator \o TableName}
                   \cup {getPathDir(c.CacheDir \o PathSeparator \o TableName, k) : k \in stored}
  /\ files = [p \in {getFilePath(c.CacheDir \o PathSeparator \o TableName, k) : k \in stored} |->
                LET k == CHOOSE x \in stored :
                           getFilePath(c.CacheDir \o PathSeparator \o TableName, x) = p
                IN [val |-> ToJsonBytes("t1"), modTime |-> -1, key |-> k]]
  /\ now = 0
  /\ mutex = NoThread
  /\ th = [t \in Threads |-> Idle]
  /\ calls = 0
  /\ hist = [k \in ValidKeys |-> [NoHist EXCEPT !.pure = k \notin stored]]
  /\ ev = NoEv

\* the steps of the calls in progress and of the goroutines
Steps ==
  \/ \E t \in Threads : AddSend(t)
  \/ \E t \in Threads : ExpireMemoryBegin(t)
  \/ \E t \in Threads : ExpireMemoryEnd(t)
  \/ MemoryTimerFire
  \/ \E w \in Workers : WorkerReceive(w)
  \/ \E w \in Workers : WorkerPersist(w)

CallbackSteps ==
  \/ \E t \in Threads : DeleteRelock(t)
  \/ \E t \in Threads : \E k \in DOMAIN items : ExpireMemoryItem(t, k)
  \/ \E t \in Threads : \E more \in SUBSET (DOMAIN items) : ExpireMemoryRelock(t, more)

GetSteps ==
  \/ \E t \in Threads : GetStore(t)
  \/ \E t \in Threads : \E kind \in LoaderResults : GetDisk(t, kind)

\* Add and Get of one key by concurrent callers, over a table with or
\* without a default TTL, a dataLoader and a file left by an earlier run
Init ==
  \E expiry \in {0, 1}, loader \in BOOLEAN, stored \in {{}, {KeyA}} :
    InitWith(Config(expiry, 4, loader, FALSE, <<"c">>), stored)

Next ==
  \/ Tick
  \/ Start
  \/ \E t \in Callers : AddExpiry(t, KeyA, 2, "t2")
  \/ \E t \in Callers : Add(t, KeyA, "t2")
  \/ \E t \in Callers : Get(t, KeyA)
  \/ \E t \in Callers : DeleteFromMemory(t, KeyA)
  \/ GetSteps
  \/ Steps

Spec == Init /\ [][Next]_vars

\* NotFoundAdd of valid arguments by concurrent callers, with deletes, over
\* a table with or without a deleteItem callback
InitNfa ==
  \E delCb \in BOOLEAN, stored \in {{}, {KeyA}} :
    InitWith(Config(2, 4, FALSE, delCb, <<"c">>), stored)

NextNfa ==
  \/ Tick
  \/ Start
  \/ \E t \in Callers : NotFoundAddExpiry(t, KeyA, 1, "t1")
  \/ \E t \in Callers : NotFoundAdd(t, KeyA, "t2")
  \/ \E t \in Callers : DeleteFromMemory(t, KeyA)
  \/ CallbackSteps
  \/ Steps

SpecNfa == InitNfa /\ [][NextNfa]_vars

\* every insert operation on every kind of argument IsValid rejects, by one
\* caller
InitArgs ==
  \E expiry \in {0, 2} :
    InitWith(Config(expiry, 4, FALSE, FALSE, <<"c">>), {})

NextArgs ==
  \/ Tick
  \/ Start
  \/ \E a \in InvalidArgs \cup {Arg(KeyB, 1, "t1")} :
       /\ calls < MaxArgCalls
       /\ \/ AddExpiry(<<"caller", 1>>, a.key, a.ttl, a.data)
          \/ NotFoundAddExpiry(<<"caller", 1>>, a.key, a.ttl, a.data)
  \/ \E a \in {Arg(k, 0, "t1") : k \in InvalidKeys} \cup {Arg(KeyA, 0, Nil), Arg(KeyB, 0, "t1")} :
       /\ calls < MaxArgCalls
       /\ \/ Add(<<"caller", 1>>, a.key, a.data)
          \/ NotFoundAdd(<<"caller", 1>>, a.key, a.data)
  \/ Steps

SpecArgs == InitArgs /\ [][NextArgs]_vars

\* disk expiry and the startup policies: a table of every StartupOptions
\* value (4 is none of the four named ones), started over the files an
\* earlier run left, with inserts and disk-expiry sweeps by one caller
InitDisk ==
  \E opt \in 0..4, stored \in {{}, {KeyA}, {KeyA, KeyB}} :
    InitWith(Config(1, opt, FALSE, FALSE, <<"c">>), stored)

DiskSteps ==
  \/ \E t \in Threads : ExpireDisk(t)
  \/ \E t \in Threads : \E p \in DOMAIN files : ExpireDiskFile(t, p)
  \/ \E t \in Threads : ExpireDiskEnd(t)
  \/ DiskTimerFire
  \/ \E t \in Threads : FlushDiskStop(t)
  \/ \E t \in Threads : FlushDisk(t)
  \/ \E t \in Threads : FlushDiskStart(t)
  \/ \E t \in Threads : LoadCacheStop(t)
  \/ \E t \in Threads : LoadCache(t)
  \/ \E t \in Threads : LoadCacheStart(t)

NextDisk ==
  \/ Tick
  \/ Start
  \/ AddExpiry(<<"caller", 1>>, KeyB, 1, "t2")
  \/ ExpireDiskMaxAge(<<"caller", 1>>, 1)
  \/ DiskSteps
  \/ Steps

SpecDisk == InitDisk /\ [][NextDisk]_vars

\* the callbacks: inserts of two keys, reads, deletes and expiry over a
\* table with an addItem callback, a dataLoader and, for some tables, a
\* deleteItem callback; items get an aboutToExpire callback
InitCb ==
  \E delCb \in BOOLEAN :
    InitWith(ConfigAddItem(1, 4, TRUE, delCb, <<"c">>), {})

NextCb ==
  \/ Tick
  \/ Start
  \/ AddExpiry(<<"caller", 1>>, KeyA, 1, "t1")
  \/ SetAboutToExpireCallback(<<"caller", 1>>, KeyA)
  \/ DeleteFromMemory(<<"caller", 1>>, KeyA)
  \/ AddExpiry(<<"caller", 2>>, KeyB, 1, "t2")
  \/ Get(<<"caller", 2>>, KeyB)
  \/ \E t \in Threads : AddCallback(t)
  \/ GetSteps
  \/ CallbackSteps
  \/ Steps

SpecCb == InitCb /\ [][NextCb]_vars

\* stopping and starting again: a cache that is started, stopped and
\* started again while a caller inserts and sweeps the disk, over a table
\* that flushes the disk on start or only arms the disk-expiry timer
InitStop ==
  \E opt \in {FlushCacheOnStart, 4} :
    InitWith(Config(1, opt, FALSE, FALSE, <<"c">>), {KeyA})

NextStop ==
  \/ Tick
  \/ Start
  \/ Stop
  \/ AddExpiry(<<"caller", 1>>, KeyB, 1, "t2")
  \/ ExpireDiskMaxAge(<<"caller", 1>>, 1)
  \/ Steps
  \/ \E t \in Threads : ExpireDisk(t)
  \/ \E t \in Threads : \E p \in DOMAIN files : ExpireDiskFile(t, p)
  \/ \E t \in Threads : ExpireDiskEnd(t)
  \/ DiskTimerFire
  \/ \E t \in Threads : FlushDiskStop(t)
  \/ \E t \in Threads : FlushDisk(t)
  \/ \E t \in Threads : FlushDiskStart(t)

SpecStop == InitStop /\ [][NextStop]_vars

\* the walk: tables under several cache roots that hold files of an
\* earlier run and load them on start, while a caller walks the disk,
\* inserts and reads
Roots == {<<"c">>, <<"r", "/", "c">>, <<"/", "c">>}

InitWalk ==
  \E dir \in Roots, stored \in {{KeyA}, {KeyA, KeyB}},
     opt \in {LoadCacheOnStart, LoadEntireCacheOnStart} :
    InitWith(Config(1, opt, FALSE, FALSE, dir), stored)

NextWalk ==
  \/ Tick
  \/ Start
  \/ ForeachDisk(<<"caller", 1>>)
  \/ AddExpiry(<<"caller", 1>>, KeyB, 1, "t2")
  \/ Get(<<"caller", 1>>, KeyA)
  \/ \E t \in Threads : LoadCacheStop(t)
  \/ \E t \in Threads : LoadCache(t)
  \/ \E t \in Threads : LoadCacheStart(t)
  \/ GetSteps
  \/ Steps

SpecWalk == InitWalk /\ [][NextWalk]_vars

\* memory against disk: two callers insert different values under one
\* key and one of them deletes the key from memory and disk, while the
\* worker writes the queued tasks; some tables have a deleteItem callback
InitPersist ==
  \E delCb \in BOOLEAN : InitWith(Config(1, 4, FALSE, delCb, <<"c">>), {})

NextPersist ==
  \/ Tick
  \/ Start
  \/ AddExpiry(<<"caller", 1>>, KeyA, 1, "t1")
  \/ AddExpiry(<<"caller", 2>>, KeyA, 1, "t2")
  \/ DeleteFromMemoryAndDisk(<<"caller", 1>>, KeyA)
  \/ CallbackSteps
  \/ Steps

SpecPersist == InitPersist /\ [][NextPersist]_vars

\* termination: a caller inserts and another reads a key that has a file,
\* on a cache that may be stopped and started again.  The goroutines and
\* the calls in progress take their steps whenever they can (the Go
\* scheduler runs every runnable goroutine); nothing obliges a caller to
\* make a call or the cache to be started or stopped.  The calls are made
\* within one unit of time, so that nothing expires.
InitLive == InitWith(Config(1, 4, FALSE, FALSE, <<"c">>), {KeyA})

NextLive ==
  \/ Start
  \/ Stop
  \/ AddExpiry(<<"caller", 1>>, KeyA, 1, "t2")
  \/ Get(<<"caller", 2>>, KeyA)
  \/ GetSteps
  \/ \E t \in Threads : AddSend(t)
  \/ \E t \in Threads : ExpireMemoryBegin(t)
  \/ \E t \in Threads : ExpireMemoryEnd(t)
  \/ \E w \in Workers : WorkerReceive(w)
  \/ \E w \in Workers : WorkerPersist(w)

Fairness ==
  /\ \A t \in Threads : WF_vars(AddSend(t))
  /\ \A t \in Threads : WF_vars(ExpireMemoryBegin(t))
  /\ \A t \in Threads : WF_vars(ExpireMemoryEnd(t))
  /\ \A w \in Workers : WF_vars(WorkerReceive(w))
  /\ \A w \in Workers : WF_vars(WorkerPersist(w))
  /\ WF_vars(GetSteps)

SpecLive == InitLive /\ [][NextLive]_vars /\ Fairness

(***************************************************************************)
(* Properties.                                                             *)
(***************************************************************************)
InsertOps == {"Add", "AddExpiry", "NotFoundAdd", "NotFoundAddExpiry"}
NfaOps == {"NotFoundAdd", "NotFoundAddExpiry"}

GetReturned == ev.what = "return" /\ ev.op = "Get"

\* C1: a Get of a key that starts after an Add or AddExpiry of the key
\* returned an item, with no delete, flush or expiry of the key since,
\* returns an item holding the added value, with AccessCount at least 1.
C1_GetReturnsAdded ==
  (GetReturned /\ ev.obs.saw # Nil /\ ~ev.obs.removed)
    => (ev.ret = "ok" /\ ev.item.data = ev.obs.saw /\ ev.item.accessCount >= 1)

\* C2: an insert operation whose key, value or TTL IsValid rejects reports
\* no insertion, stores nothing in memory and enqueues no persist task.
C2_InvalidInsertRejected ==
  (ev.what = "return" /\ ev.op \in InsertOps
     /\ ~IsValidFields(ev.key, ev.data, ev.ttl))
    => (ev.ret \in {"nil", "false"} /\ ~ev.obs.stored /\ ~ev.obs.enq)

\* C3 as the specification states it: NotFoundAdd of valid arguments returns
\* false on a key that is resident or has a file, and on an absent key it
\* returns true with the key resident when the call returns.
C3_ResidentOnReturn ==
  (ev.what = "return" /\ ev.op \in NfaOps
     /\ IsValidFields(ev.key, ev.data, ev.ttl))
    => IF ev.obs.inMem \/ ev.obs.onDisk THEN ev.ret = "false"
       ELSE ev.ret = "true" /\ ev.key \in DOMAIN items

\* C3, amended: NotFoundAdd of valid arguments on a key that is resident or
\* has a file returns false and its return changes neither memory, disk nor
\* the persist queue; on an absent key it returns true, having stored the
\* key, which is resident when the call returns unless a delete or expiry of
\* the key ran during the call.
C3_NotFoundAdd ==
  [][(ev'.what = "return" /\ ev'.op \in NfaOps
        /\ IsValidFields(ev'.key, ev'.data, ev'.ttl))
       => IF ev'.obs.inMem \/ ev'.obs.onDisk
          THEN /\ ev'.ret = "false"
               /\ items' = items /\ files' = files /\ persistQueue' = persistQueue
          ELSE /\ ev'.ret = "true"
               /\ ev'.obs.removed \/ (ev'.key \in DOMAIN items'
                                       /\ items'[ev'.key].id = ev'.item.id)]_vars

\* both outcomes of C3 happened: a NotFoundAdd returned true with its key
\* resident
C3_Witness ==
  /\ ev.what = "return" /\ ev.op \in NfaOps /\ ev.ret = "true"
  /\ ~ev.obs.removed /\ ev.key \in DOMAIN items

\* C4: of the NotFoundAdd calls on a valid key that was absent from memory
\* and disk, with no delete, flush, expiry or other store of the key, at
\* most one returns true; once none is in progress exactly one has; and the
\* value in memory is the one that call passed.
C4_OneWinner ==
  \A k \in DOMAIN hist :
    hist[k].pure =>
      /\ hist[k].nfaTrue <= 1
      /\ (hist[k].nfaDone >= 1
            /\ \A t \in Callers : ~(th[t].op \in NfaOps /\ th[t].key = k))
           => hist[k].nfaTrue = 1
      /\ hist[k].nfaTrue = 1
           => (k \in DOMAIN items /\ items[k].data = hist[k].nfaVal)

\* two NotFoundAdd calls on the same absent key have both returned
C4_Witness ==
  \E k \in DOMAIN hist :
    hist[k].pure /\ hist[k].nfaDone >= 2 /\ hist[k].nfaTrue = 1

\* C5: a Get that hits memory reads no disk, calls no loader, enqueues
\* nothing and succeeds; the loader is called only after a memory miss and
\* a disk that gave nothing; not-found is returned only when the key is not
\* in memory and neither the disk nor the loader gave a valid item.
C5_TierOrder ==
  GetReturned =>
    /\ ev.obs.inMem
         => (ev.obs.disk = "none" /\ ev.obs.loader = "none" /\ ~ev.obs.enq
             /\ ev.ret = "ok")
    /\ ev.obs.disk # "none" => ~ev.obs.inMem
    /\ ev.obs.loader # "none" => (~ev.obs.inMem /\ ev.obs.diskVal = Nil)
    /\ ev.ret = "notfound"
         => /\ ~ev.obs.inMem
            /\ ~(ev.obs.diskVal # Nil /\ table.expiryTime > 0)
            /\ ev.obs.loader # "item"

\* a Get that missed memory and disk returned the loader's item
C5_Witness ==
  GetReturned /\ ev.ret = "ok" /\ ev.obs.loader = "item" /\ ev.obs.disk = "miss"

\* C6: whatever the default TTL, a Get of a key absent from memory whose
\* file deserializes to a value succeeds without the loader, returns an
\* item holding that value with AccessCount 0 and leaves the key resident.
C6_DiskHit ==
  (GetReturned /\ ~ev.obs.inMem /\ ev.obs.diskVal # Nil)
    => /\ ev.ret = "ok"
       /\ ev.obs.loader = "none"
       /\ ev.item.data = ev.obs.diskVal
       /\ ev.item.accessCount = 0
       /\ ev.obs.removed \/ ev.key \in DOMAIN items

\* C7: one memory-expiry evaluation removes exactly the items whose TTL is
\* positive and is not above the time since their last access.
C7_ExpiryExact ==
  ev.what = "expireMemory"
    => ev.set = {k \in DOMAIN ev.snap :
                   /\ ev.snap[k].lifeSpan > 0
                   /\ ev.n - ev.snap[k].accessedOn >= ev.snap[k].lifeSpan}

\* C8: when a disk-expiry sweep ends, no file it found older than its
\* cutoff is left (unless written again since).
C8_SweepDeletesOld ==
  ev.what = "expireDisk"
    => \A p \in ev.set : p \notin DOMAIN files \/ files[p].modTime >= ev.n

\* C9: the persist queue never holds more than its capacity, and the task
\* the worker persisted is in its key's file.
C9_TaskWritten ==
  /\ Len(persistQueue) <= table.persistQueueSize
  /\ ev.what = "persist"
       => /\ getFilePath(basePath, ev.key) \in DOMAIN files
          /\ files[getFilePath(basePath, ev.key)].val = ev.data

\* C10: the goroutine start launches for a table whose config leaves
\* StartupOptions unset deletes no file and loads no item.
C10_DefaultStartup ==
  (table.startupOptions = DefaultStartupOptions /\ ev.t = StartG) => ev.set = {}

CallbackPcs == {"add_cb", "del_cb", "em_cb"}

\* C11: a thread that is running an addItem callback, or the deleteItem and
\* aboutToExpire callbacks of a delete, does not hold the table lock, and no
\* dataLoader was called by a thread holding it.
C11_CallbacksUnlocked ==
  /\ \A t \in Threads :
       /\ th[t].pc \in CallbackPcs => mutex # t
       /\ ~th[t].obs.cbLock
  /\ ~ev.obs.cbLock

\* a thread is in the callbacks of a delete made by expireMemory while
\* another thread holds the table lock
C11_Witness ==
  \E t \in Threads :
    th[t].pc = "em_cb" /\ mutex # NoThread /\ mutex # t

\* the resident items with a positive lifeSpan
PositiveTTL == {k \in DOMAIN items : items[k].lifeSpan > 0}

\* lifeSpan - (n - accessedOn) of the item under k
TimeLeft(k, n) == items[k].lifeSpan - (n - items[k].accessedOn)

\* C12: when expireMemory finishes, if an item with a positive lifeSpan
\* remains the cleanupTimer is armed with the least time left among those
\* items and cleanupInterval is that delay; otherwise the timer is not armed
\* and cleanupInterval is zero.
C12_TimerAfterEvaluation ==
  ev.what = "expireMemory" =>
    IF PositiveTTL # {}
    THEN /\ cleanupTimer.armed
         /\ \E k \in PositiveTTL : cleanupInterval = TimeLeft(k, ev.n)
         /\ \A k \in PositiveTTL : cleanupInterval <= TimeLeft(k, ev.n)
         /\ cleanupTimer.at = now + cleanupInterval
    ELSE /\ ~cleanupTimer.armed
         /\ cleanupInterval = 0

\* no call, evaluation, sweep or startup work is in progress (the worker
\* waits for a task)
Quiescent == \A t \in Threads : th[t].pc \in {"idle", "w_recv"}

\* C13: when no table operation is in progress and an item with a positive
\* lifeSpan is resident, a cleanupTimer is pending, so that the item is
\* going to be removed.  (The deadline accessedOn + lifeSpan is left out:
\* the timer is armed some time after expireMemory read the clock, and a
\* state without any pending timer violates the claim whatever the
\* deadline.)
C13_ExpiryPending ==
  (Quiescent /\ PositiveTTL # {}) => cleanupTimer.armed

\* C14: once stop has returned and until the next start, no disk-expiry
\* timer is armed.
C14_StoppedNoDiskTimer ==
  (basePath # <<>> /\ ~started) => ~diskExpiryTimer.armed

\* the persist goroutines that have not ended
LiveWorkers == {w \in Workers : th[w].pc # "idle"}

\* C15: at most one persist goroutine of the table is alive.
C15_OneWorker == Cardinality(LiveWorkers) <= 1

\* C16: the FlushDisk that start launches for FlushCacheOnStart removes
\* only files that were on disk before the start (those have a modTime
\* before time 0; persist writes files with modTime >= 0).
C16_StartupFlushOldOnly ==
  (ev.what = "flushDisk" /\ ev.op = "startup") =>
    \A p \in DOMAIN ev.snap : ev.snap[p].modTime < 0

\* C17: the key walk reports for a file is the key the file was written
\* for: every file is reported, and getFilePath of the reported key is the
\* file's path.
C17_WalkReportsKey ==
  ev.what = "foreachDisk" =>
    /\ \A p \in DOMAIN files : <<p, files[p].key>> \in ev.set
    /\ \A r \in ev.set : getFilePath(basePath, r[2]) = r[1]

\* C18: when the loadCache of LoadEntireCacheOnStart has walked the disk,
\* every key whose file unmarshals into a value is resident with that value
\* and the file's modTime as createdOn.
C18_EntireLoad ==
  (ev.what = "loadCache" /\ table.startupOptions = LoadEntireCacheOnStart) =>
    \A p \in DOMAIN files :
      TimeFromBytes(files[p].val) # Nil =>
        /\ files[p].key \in DOMAIN items
        /\ items[files[p].key].data = TimeFromBytes(files[p].val)
        /\ items[files[p].key].createdOn = files[p].modTime

\* every call has returned and every queued persist task is written
Drained == Quiescent /\ persistQueue = <<>>

\* C19: once DeleteFromMemoryAndDisk of a key has returned, the queue is
\* drained and no store of the key was made since the delete began, the key
\* is neither in memory nor on disk.
C19_DeletedStaysDeleted ==
  Drained =>
    \A k \in ValidKeys :
      hist[k].wiped =>
        /\ k \notin DOMAIN items
        /\ getFilePath(basePath, k) \notin DOMAIN files

\* C20: once every insert has returned and the queue is drained, and no
\* delete, flush or expiry removed the key, the file of a resident key
\* holds the bytes of the value in memory.
C20_DiskMatchesMemory ==
  Drained =>
    \A k \in ValidKeys :
      (k \in DOMAIN items /\ ~hist[k].gone /\ ~hist[k].wiped) =>
        /\ getFilePath(basePath, k) \in DOMAIN files
        /\ files[getFilePath(basePath, k)].val = ToJsonBytes(items[k].data)

\* C21: a delete that released the lock for its callbacks removes, when it
\* locks again, only the item it found: an item stored under the key in
\* between stays resident.
C21_DeleteOnlyFound ==
  ev.removed # NoItem => ev.removed.id = ev.item.id

\* C22: every call a caller has made on the table eventually returns.
C22_CallsReturn ==
  \A t \in Callers : (th[t].pc # "idle") ~> (th[t].pc = "idle")

=============================================================================
